---- MODULE Spec2Model ----
(***************************************************************************)
(* Booking lifecycle and credit settlement of coursemaster-plaza.          *)
(*                                                                         *)
(* The database side is the two BEFORE UPDATE row triggers on              *)
(* booking_requests (handle_booking_confirmation, then                     *)
(* process_post_meeting_confirmations: PostgreSQL fires same-kind triggers *)
(* in name order and hands the NEW row of one to the next), the AFTER      *)
(* INSERT defaults, and the RPC create_booking_with_payment.  The client   *)
(* side is the React handlers that issue partial-column updates through    *)
(* PostgREST.  One UPDATE of one row is one atomic step: the row lock      *)
(* taken by UPDATE serialises writers, and the triggers see the latest     *)
(* committed version of the row as OLD.  A statement that raises an        *)
(* exception is undone as a whole; the caller gets the error (outcome).    *)
(***************************************************************************)
EXTENDS Integers, Sequences, FiniteSets, Bags, TLC

(* ---------------------------------------------------------------- bounds *)
NumUsers == 2
MaxBookings == 2
NumSlots == 1
MaxSteps == 4
MaxTxns == 2
MaxRowSteps == 1

(* ------------------------------------------------------ program constants *)
SignupCredits == 10      \* profiles.time_credits DEFAULT 10
CreditsPerHour == 2      \* services.credits_per_hour of the modelled service
DurationHours == 3       \* services.duration_hours of the modelled service

Users == 1..NumUsers
Slots == 1..NumSlots
ServiceProvider == NumUsers   \* services.provider_id of the modelled service
NoProfile == 0                \* an auth.users id that has no profiles row
Callers == Users \cup {NoProfile}

Statuses == {"pending", "confirmed", "declined", "cancelled", "completed"}
DisputeStatuses == {"none", "open", "resolved"}
Terminal == {"declined", "cancelled", "completed"}

VARIABLES
  profiles,             \* user_id -> time_credits
  availability_slots,   \* slot id -> is_available
  booking_requests,     \* sequence of booking rows, index = id
  transfers,            \* per booking: number of debit/credit pairs executed for it
  flagSets,             \* per booking: number of updates that turned credits_transferred false -> true
  steps,                \* number of statements executed so far
  inflight,             \* update requests sent by a client and not yet executed
  delivered,            \* update requests already executed by the database
  notifications,        \* bag of the notifications rows appended so far
  reviews,              \* set of reviews rows
  profile_ratings,      \* user_id -> profiles.rating (in tenths) and profiles.total_reviews
  outcome,              \* what the last call returned: "ok" or the error raised
  txns,                 \* open transfer_credits transactions, statement by statement
  transactions          \* sequence of rows of the legacy transactions table, index = id

dbvars == <<profiles, availability_slots, booking_requests, transfers, flagSets, steps,
            notifications, reviews, profile_ratings, outcome>>
vars == <<profiles, availability_slots, booking_requests, transfers, flagSets, steps,
          inflight, delivered, notifications, reviews, profile_ratings, outcome, txns,
          transactions>>

Ids == 1..Len(booking_requests)

(* totalCredits = service.credits_per_hour * service.duration_hours *)
totalCredits == CreditsPerHour * DurationHours

(* Values a caller of create_booking_with_payment passes as p_credits_amount. *)
Amounts == {0, 1, totalCredits}

(* Column defaults of a freshly inserted booking_requests row;
   google_meet_link is TRUE when the column holds a link, FALSE when it is
   null. *)
NewRow(slot, learner, provider, amount, paid) ==
  [ availability_slot_id |-> slot,
    learner_id           |-> learner,
    provider_id          |-> provider,
    status               |-> "pending",
    credits_amount       |-> amount,
    credits_transferred  |-> paid,
    provider_confirmed   |-> FALSE,
    learner_confirmed    |-> FALSE,
    dispute_status       |-> "none",
    completed_at         |-> FALSE,
    google_meet_link     |-> FALSE ]

(* UPDATE ... SET <patch>: only the named columns change. *)
ApplyPatch(row, patch) ==
  [c \in DOMAIN row |-> IF c \in DOMAIN patch THEN patch[c] ELSE row[c]]

(* Debit and credit both computed from the balances read before the
   transfer: when from = to the credit overwrites the debit. *)
MoveCredits_sameSnapshot(p, from, to, amt) ==
  [u \in DOMAIN p |-> IF u = to THEN p[u] + amt
                      ELSE IF u = from THEN p[u] - amt
                      ELSE p[u]]

(* The credit without the debit. *)
MoveCredits_creditOnly(p, from, to, amt) == [p EXCEPT ![to] = @ + amt]

(* update profiles set time_credits = time_credits - amt where user_id = from;
   update profiles set time_credits = time_credits + amt where user_id = to;   *)
MoveCredits(p, from, to, amt) ==
  LET p1 == [p EXCEPT ![from] = @ - amt]
  IN  [p1 EXCEPT ![to] = @ + amt]

(* One row of notifications: insert into notifications (user_id,
   booking_request_id, type, title, message [, scheduled_for]); only the
   booking_reminder inserts name scheduled_for. *)
Notification(user, b, type, title) ==
  [user_id |-> user, booking_request_id |-> b, type |-> type, title |-> title,
   scheduled_for |-> IF type = "booking_reminder" THEN "requested_start_time - 1 hour"
                     ELSE "null"]

RECURSIVE BagOfSeq(_)
BagOfSeq(s) == IF s = <<>> THEN EmptyBag ELSE SetToBag({Head(s)}) (+) BagOfSeq(Tail(s))

(* Trigger function handle_booking_confirmation (latest definition); b is
   new.id. *)
handle_booking_confirmation(b, new, old) ==
  IF new.status = "confirmed" /\ old.status = "pending" THEN
    [row |-> new, slot |-> "false", transfer |-> FALSE,
     notify |-> << Notification(new.learner_id, b, "booking_confirmed", "Booking Confirmed!"),
                   Notification(new.provider_id, b, "booking_confirmed", "Booking Confirmed"),
                   Notification(new.learner_id, b, "booking_reminder", "Session Starting Soon"),
                   Notification(new.provider_id, b, "booking_reminder", "Session Starting Soon") >>]
  ELSE IF new.status = "declined" /\ old.status = "pending" THEN
    [row |-> new, slot |-> "true", transfer |-> FALSE,
     notify |-> << Notification(new.learner_id, b, "booking_declined", "Booking Declined") >>]
  ELSE IF new.status = "cancelled" /\ old.status \in {"confirmed", "pending"} THEN
    [row |-> new, slot |-> "true", transfer |-> FALSE,
     notify |-> << Notification(new.learner_id, b, "booking_cancelled", "Booking Cancelled"),
                   Notification(new.provider_id, b, "booking_cancelled", "Booking Cancelled") >>]
  ELSE IF new.status = "completed" /\ old.status = "confirmed" THEN
    IF new.credits_transferred = FALSE
    THEN [row |-> [new EXCEPT !.completed_at = TRUE, !.credits_transferred = TRUE],
          slot |-> "keep", transfer |-> TRUE, notify |-> <<>>]
    ELSE [row |-> [new EXCEPT !.completed_at = TRUE],
          slot |-> "keep", transfer |-> FALSE, notify |-> <<>>]
  ELSE
    [row |-> new, slot |-> "keep", transfer |-> FALSE, notify |-> <<>>]

(* The completion rule evaluated only by the update that toggles a
   confirmation flag. *)
CompletionRule_onToggle(new, old) ==
  /\ new.provider_confirmed = TRUE
  /\ new.learner_confirmed = TRUE
  /\ new.dispute_status = "none"
  /\ new.status = "confirmed"
  /\ old.provider_confirmed = FALSE \/ old.learner_confirmed = FALSE

(* The completion rule of process_post_meeting_confirmations. *)
CompletionRule(new, old) ==
  /\ new.provider_confirmed = TRUE
  /\ new.learner_confirmed = TRUE
  /\ new.dispute_status = "none"
  /\ new.status = "confirmed"

(* The transfer without its credits_transferred guard. *)
NeedsTransfer_unguarded(new) == TRUE

(* The credits_transferred guard of process_post_meeting_confirmations. *)
NeedsTransfer(new) == new.credits_transferred = FALSE

(* The two 'Session Completed' rows process_post_meeting_confirmations
   inserts. *)
SessionCompleted(b, new) ==
  << Notification(new.learner_id, b, "booking_confirmed", "Session Completed"),
     Notification(new.provider_id, b, "booking_confirmed", "Session Completed") >>

(* Trigger function process_post_meeting_confirmations (latest definition);
   b is new.id. *)
process_post_meeting_confirmations(b, new, old) ==
  IF CompletionRule(new, old) THEN
    IF NeedsTransfer(new)
    THEN [row |-> [new EXCEPT !.completed_at = TRUE, !.status = "completed",
                              !.google_meet_link = FALSE,
                              !.credits_transferred = TRUE],
          transfer |-> TRUE, notify |-> SessionCompleted(b, new)]
    ELSE [row |-> [new EXCEPT !.completed_at = TRUE, !.status = "completed",
                              !.google_meet_link = FALSE],
          transfer |-> FALSE, notify |-> SessionCompleted(b, new)]
  ELSE
    [row |-> new, transfer |-> FALSE, notify |-> <<>>]

(* One UPDATE booking_requests SET <patch> WHERE id = b, with both BEFORE
   UPDATE triggers, as one transaction; old is the row version the UPDATE
   locked. *)
UpdateRow(b, old, patch) ==
  LET h   == handle_booking_confirmation(b, ApplyPatch(old, patch), old)
      p   == process_post_meeting_confirmations(b, h.row, old)
      row == p.row
      n   == (IF h.transfer THEN 1 ELSE 0) + (IF p.transfer THEN 1 ELSE 0)
      p1  == IF h.transfer
             THEN MoveCredits(profiles, row.learner_id, row.provider_id, row.credits_amount)
             ELSE profiles
      p2  == IF p.transfer
             THEN MoveCredits(p1, row.learner_id, row.provider_id, row.credits_amount)
             ELSE p1
  IN  /\ steps < MaxSteps
      /\ steps' = steps + 1
      /\ booking_requests' = [booking_requests EXCEPT ![b] = row]
      /\ profiles' = p2
      /\ availability_slots' =
           IF h.slot = "keep" THEN availability_slots
           ELSE [availability_slots EXCEPT ![row.availability_slot_id] = (h.slot = "true")]
      /\ transfers' = [transfers EXCEPT ![b] = @ + n]
      /\ flagSets' = [flagSets EXCEPT ![b] =
                        @ + (IF ~old.credits_transferred /\ row.credits_transferred THEN 1 ELSE 0)]
      /\ notifications' = notifications (+) BagOfSeq(h.notify) (+) BagOfSeq(p.notify)
      /\ outcome' = "ok"

(* An UPDATE executed as soon as the client issues it. *)
UpdateBooking(b, patch) ==
  /\ UpdateRow(b, booking_requests[b], patch)
  /\ UNCHANGED <<inflight, delivered, reviews, profile_ratings, txns, transactions>>

(* ------------------------------------------------------------------ Init *)
Init ==
  /\ profiles = [u \in Users |-> SignupCredits]
  /\ availability_slots = [s \in Slots |-> TRUE]
  /\ booking_requests = <<>>
  /\ transfers = <<>>
  /\ flagSets = <<>>
  /\ steps = 0
  /\ inflight = {}
  /\ delivered = {}
  /\ notifications = EmptyBag
  /\ reviews = {}
  /\ profile_ratings = [u \in Users |-> [rating |-> 0, total_reviews |-> 0]]
  /\ outcome = "ok"
  /\ txns = <<>>
  /\ transactions = <<>>

(* --------------------------------------------------------------- creation *)
(* Trigger notify_new_booking_request, AFTER INSERT on booking_requests. *)
notify_new_booking_request(b, new) ==
  << Notification(new.provider_id, b, "booking_request", "New Booking Request") >>

(* What an aborted statement leaves behind if the changes it made before the
   exception were kept. *)
StateAfterException_kept(before, partial) == partial

(* What an aborted statement leaves behind: an exception raised in a
   function or by a constraint undoes every change of the statement. *)
StateAfterException(before, partial) == before

(* INSERT INTO booking_requests: the row, its ledger counters, and the
   AFTER INSERT notification. *)
InsertBooking(row, paid) ==
  /\ Len(booking_requests) < MaxBookings
  /\ booking_requests' = Append(booking_requests, row)
  /\ transfers' = Append(transfers, IF paid THEN 1 ELSE 0)
  /\ flagSets' = Append(flagSets, 0)
  /\ notifications' = notifications (+)
        BagOfSeq(notify_new_booking_request(Len(booking_requests) + 1, row))

(* BookingRequest.handleSubmitBooking: read the learner's balance without a
   lock, stop if it is below totalCredits, then a plain INSERT
   (credits_transferred defaults to false).  The INSERT is rejected by the
   policy "Learners can create booking requests" when the caller is not the
   learner and by valid_booking_time_range when the range is not valid. *)
handleSubmitBooking(caller, learner, slot, validRange) ==
  LET err == IF learner \notin Users THEN "profile_error"
             ELSE IF profiles[learner] < totalCredits THEN "Insufficient Credits"
             ELSE IF caller # learner \/ ~validRange THEN "insert_rejected"
             ELSE "ok"
  IN  /\ steps < MaxSteps
      /\ steps' = steps + 1
      /\ outcome' = err
      /\ IF err = "ok"
         THEN InsertBooking(NewRow(slot, learner, ServiceProvider, totalCredits, FALSE), FALSE)
         ELSE UNCHANGED <<booking_requests, transfers, flagSets, notifications>>
      /\ UNCHANGED <<profiles, availability_slots, inflight, delivered, reviews,
                     profile_ratings, txns, transactions>>

(* RPC create_booking_with_payment: caller check, amount check, balance
   check under the learner's row lock, debit and credit, then the INSERT
   with credits_transferred = true; an INSERT rejected by
   valid_booking_time_range aborts the call after the balances were
   written. *)
create_booking_with_payment(caller, learner, slot, p_credits_amount, validRange) ==
  LET err  == IF caller # learner THEN "Unauthorized"
              ELSE IF p_credits_amount <= 0 THEN "Invalid credits amount"
              ELSE IF learner \notin Users THEN "Learner profile not found"
              ELSE IF profiles[learner] < p_credits_amount THEN "INSUFFICIENT_CREDITS"
              ELSE IF ~validRange THEN "check_violation"
              ELSE "ok"
      paid == MoveCredits(profiles, learner, ServiceProvider, p_credits_amount)
  IN  /\ steps < MaxSteps
      /\ steps' = steps + 1
      /\ outcome' = err
      /\ profiles' = IF err = "ok" THEN paid
                     ELSE IF err = "check_violation" THEN StateAfterException(profiles, paid)
                     ELSE profiles
      /\ IF err = "ok"
         THEN InsertBooking(NewRow(slot, learner, ServiceProvider, p_credits_amount, TRUE), TRUE)
         ELSE UNCHANGED <<booking_requests, transfers, flagSets, notifications>>
      /\ UNCHANGED <<availability_slots, inflight, delivered, reviews, profile_ratings, txns, transactions>>

(* ------------------------------------------------------- provider actions *)
(* What functions.invoke('create_meeting' | 'create_random_meet') hands back:
   a link, an error, or a response without a link. *)
MeetResults == {"link", "error", "no_link"}

(* A handler that sends nothing once the meeting function has failed. *)
updateData_linkRequired(action, meet) ==
  IF action = "confirm"
  THEN IF meet = "link" THEN [status |-> "confirmed", google_meet_link |-> TRUE]
       ELSE [provider_notes |-> FALSE]
  ELSE [status |-> "declined"]

(* The columns the two confirm / decline handlers send: the status, and the
   link only when the meeting function returned one (the error is logged and
   the update goes on). *)
updateData(action, meet) ==
  IF action = "confirm"
  THEN IF meet = "link" THEN [status |-> "confirmed", google_meet_link |-> TRUE]
       ELSE [status |-> "confirmed"]
  ELSE [status |-> "declined"]

(* BookingManagement.handleBookingAction: create_meeting when confirming,
   then update {status, provider_notes, google_meet_link?}. *)
handleBookingAction(b, action, meet) ==
  /\ b \in Ids
  /\ UpdateBooking(b, updateData(action, meet))

(* NotificationBell.handleBookingDecision: the booking_request notification
   keeps its Confirm / Decline buttons whatever the booking's status is. *)
handleBookingDecision(b, action, meet) ==
  /\ b \in Ids
  /\ UpdateBooking(b, updateData(action, meet))

(* BookingManagement.confirmSession: update {provider_confirmed: true}. *)
confirmSession(b) ==
  /\ b \in Ids
  /\ UpdateBooking(b, [provider_confirmed |-> TRUE])

(* BookingManagement.openDispute: update {dispute_status: 'open', ...}. *)
openDispute(b) ==
  /\ b \in Ids
  /\ UpdateBooking(b, [dispute_status |-> "open"])

(* ---------------------------------------------------------- SessionWatcher *)
(* SessionWatcher.confirmPostSession: b is the booking held in
   postSessionPrompt, a row that checkNeedsPostSessionConfirmation once
   returned for user u; the handler re-reads nothing before it writes. *)
confirmPostSession(u, b) ==
  /\ b \in Ids
  /\ booking_requests[b].provider_id = u \/ booking_requests[b].learner_id = u
  /\ LET isProvider == booking_requests[b].provider_id = u
     IN  UpdateBooking(b, IF isProvider THEN [provider_confirmed |-> TRUE]
                                       ELSE [learner_confirmed |-> TRUE])

(* SessionWatcher.openPostSessionDispute *)
openPostSessionDispute(u, b) ==
  /\ b \in Ids
  /\ booking_requests[b].provider_id = u \/ booking_requests[b].learner_id = u
  /\ UpdateBooking(b, [dispute_status |-> "open"])

(* ------------------------------------------- updates the row policy admits *)
(* Policy "Users can update booking requests they're involved in": either
   party may write the status column directly (cancel, complete, ...). *)
UpdateStatus(b, s) ==
  /\ b \in Ids
  /\ UpdateBooking(b, [status |-> s])

(* Out-of-band dispute resolution writes dispute_status. *)
ResolveDispute(b, d) ==
  /\ b \in Ids
  /\ booking_requests[b].dispute_status = "open"
  /\ UpdateBooking(b, [dispute_status |-> d])

(* ------------------------------------------------------------------ reviews *)
(* Policy reviews_insert_by_learner: the caller is the learner of the
   completed booking named by booking_id. *)
reviews_insert_by_learner(caller, booking_id) ==
  /\ booking_id \in Ids
  /\ booking_requests[booking_id].learner_id = caller
  /\ booking_requests[booking_id].status = "completed"

(* Policy "Users can create reviews for their transactions", created with
   the reviews table and never dropped: auth.uid() = reviewer_id. *)
reviews_insert_legacy(caller, reviewer_id) == caller = reviewer_id

(* reviews.rating: check (rating between 1 and 5). *)
Ratings == 1..5

(* A review that names no booking (booking_id is null). *)
NoBooking == 0

RECURSIVE SumOfRatings(_)
SumOfRatings(rs) ==
  IF rs = {} THEN 0
  ELSE LET r == CHOOSE x \in rs : TRUE IN r.rating + SumOfRatings(rs \ {r})

(* The mean cut off after its first decimal instead of rounded. *)
Decimal21_truncated(sum, cnt) == (10 * sum) \div cnt

(* profiles.rating is DECIMAL(2,1): the value assigned, sum / cnt, is rounded
   to one decimal, halves away from zero; the result is in tenths. *)
Decimal21(sum, cnt) == (20 * sum + cnt) \div (2 * cnt)

(* recompute_profile_rating(p_user_id) on the reviews rs:
   rating = coalesce(avg(r.rating), 0), total_reviews = count over the
   reviews whose reviewee_id is p_user_id. *)
recompute_profile_rating(pr, rs, p_user_id) ==
  LET mine == {r \in rs : r.reviewee_id = p_user_id}
      cnt  == Cardinality(mine)
  IN  [pr EXCEPT ![p_user_id] =
         [rating        |-> IF cnt = 0 THEN 0 ELSE Decimal21(SumOfRatings(mine), cnt),
          total_reviews |-> cnt]]

(* update_user_rating, AFTER INSERT on reviews: the same aggregate for
   NEW.reviewee_id. *)
update_user_rating(pr, rs, new) == recompute_profile_rating(pr, rs, new.reviewee_id)

(* An update trigger that recomputes the new reviewee only. *)
on_reviews_changed_newOnly(tg_op, old, new, pr, rs) ==
  IF tg_op = "DELETE" THEN recompute_profile_rating(pr, rs, old.reviewee_id)
  ELSE recompute_profile_rating(pr, rs, new.reviewee_id)

(* on_reviews_changed, AFTER INSERT OR UPDATE OR DELETE on reviews; rs is the
   table after the statement. *)
on_reviews_changed(tg_op, old, new, pr, rs) ==
  IF tg_op = "INSERT" THEN recompute_profile_rating(pr, rs, new.reviewee_id)
  ELSE IF tg_op = "UPDATE" THEN
    LET p1 == recompute_profile_rating(pr, rs, new.reviewee_id)
    IN  IF old.reviewee_id # new.reviewee_id
        THEN recompute_profile_rating(p1, rs, old.reviewee_id)
        ELSE p1
  ELSE recompute_profile_rating(pr, rs, old.reviewee_id)

(* A reviews table without the unique index. *)
reviews_booking_unique_missing(booking_id) == TRUE

(* Unique index reviews_booking_unique on reviews(booking_id): the insert is
   admitted when no committed review has this booking_id (an insert that
   meets an uncommitted one waits for it to commit); null booking_ids never
   collide. *)
reviews_booking_unique(booking_id) ==
  booking_id = NoBooking \/ ~\E r \in reviews : r.booking_id = booking_id

(* INSERT INTO reviews (booking_id, reviewer_id, reviewee_id, rating, ...) by
   caller, as one statement.  Permissive policies of one command are OR-ed;
   reviews_booking_unique rejects a second review of the booking; the AFTER
   INSERT triggers then run: on_review_insert_mark_booking updates the
   booking row (review_submitted), which fires the booking triggers, and
   on_reviews_changed and update_user_rating recompute the reviewee's
   aggregate. *)
InsertReviewRow(caller, booking_id, reviewer_id, reviewee_id, rating) ==
  LET err == IF ~( \/ reviews_insert_by_learner(caller, booking_id)
                   \/ reviews_insert_legacy(caller, reviewer_id) )
             THEN "rls_violation"
             ELSE IF ~reviews_booking_unique(booking_id) THEN "unique_violation"
             ELSE "ok"
      new == [id          |-> CHOOSE i \in 1..(Cardinality(reviews) + 1) :
                                 \A r \in reviews : r.id # i,
              booking_id  |-> booking_id,
              reviewer_id |-> reviewer_id,
              reviewee_id |-> reviewee_id,
              rating      |-> rating]
      rs  == reviews \cup {new}
  IN  /\ booking_id \in Ids \cup {NoBooking}
      /\ IF err = "ok"
         THEN /\ reviews' = rs
              /\ profile_ratings' =
                   update_user_rating(on_reviews_changed("INSERT", new, new, profile_ratings, rs),
                                      rs, new)
              /\ IF booking_id # NoBooking
                 THEN UpdateRow(booking_id, booking_requests[booking_id],
                                [review_submitted |-> TRUE])
                 ELSE /\ steps < MaxSteps
                      /\ steps' = steps + 1
                      /\ outcome' = "ok"
                      /\ UNCHANGED <<profiles, availability_slots, booking_requests,
                                     transfers, flagSets, notifications>>
         ELSE /\ steps < MaxSteps
              /\ steps' = steps + 1
              /\ outcome' = err
              /\ UNCHANGED <<profiles, availability_slots, booking_requests, transfers,
                             flagSets, notifications, reviews, profile_ratings>>

(* The insert executed as soon as the client issues it. *)
InsertReview(caller, booking_id, reviewer_id, reviewee_id, rating) ==
  /\ InsertReviewRow(caller, booking_id, reviewer_id, reviewee_id, rating)
  /\ UNCHANGED <<inflight, delivered, txns, transactions>>

(* UPDATE reviews SET reviewee_id, rating WHERE id = ...; policy
   reviews_update_by_reviewer: reviewer_id = auth.uid(). *)
UpdateReview(caller, id, reviewee_id, rating) ==
  /\ steps < MaxSteps
  /\ \E old \in reviews :
       /\ old.id = id
       /\ old.reviewer_id = caller
       /\ LET new == [old EXCEPT !.reviewee_id = reviewee_id, !.rating = rating]
              rs  == (reviews \ {old}) \cup {new}
          IN  /\ reviews' = rs
              /\ profile_ratings' = on_reviews_changed("UPDATE", old, new, profile_ratings, rs)
  /\ steps' = steps + 1
  /\ outcome' = "ok"
  /\ UNCHANGED <<profiles, availability_slots, booking_requests, transfers, flagSets,
                 notifications, inflight, delivered, txns, transactions>>

(* DELETE FROM reviews WHERE id = ...; policy reviews_delete_by_reviewer. *)
DeleteReview(caller, id) ==
  /\ steps < MaxSteps
  /\ \E old \in reviews :
       /\ old.id = id
       /\ old.reviewer_id = caller
       /\ LET rs == reviews \ {old}
          IN  /\ reviews' = rs
              /\ profile_ratings' = on_reviews_changed("DELETE", old, old, profile_ratings, rs)
  /\ steps' = steps + 1
  /\ outcome' = "ok"
  /\ UNCHANGED <<profiles, availability_slots, booking_requests, transfers, flagSets,
                 notifications, inflight, delivered, txns, transactions>>

(* SessionWatcher.submitReview: b is the booking held in reviewPopup, a row
   checkCompletedNeedingReview once returned for its learner; the payload's
   reviewer_id is that row's learner_id.  The review_prompted_at update that
   follows writes no column the triggers read. *)
submitReview(b) ==
  /\ b \in Ids
  /\ InsertReview(booking_requests[b].learner_id, b, booking_requests[b].learner_id,
                  booking_requests[b].provider_id, 5)

(* Any one UPDATE of an existing booking. *)
Updates ==
  \/ \E b \in 1..MaxBookings, a \in {"confirm", "decline"}, m \in MeetResults :
       handleBookingAction(b, a, m)
  \/ \E b \in 1..MaxBookings, a \in {"confirm", "decline"}, m \in MeetResults :
       handleBookingDecision(b, a, m)
  \/ \E b \in 1..MaxBookings : confirmSession(b)
  \/ \E b \in 1..MaxBookings : openDispute(b)
  \/ \E u \in Users, b \in 1..MaxBookings : confirmPostSession(u, b)
  \/ \E u \in Users, b \in 1..MaxBookings : openPostSessionDispute(u, b)
  \/ \E b \in 1..MaxBookings, s \in Statuses : UpdateStatus(b, s)
  \/ \E b \in 1..MaxBookings, d \in {"none", "resolved"} : ResolveDispute(b, d)

Next ==
  \/ \E c \in Callers, l \in Callers, s \in Slots, v \in BOOLEAN :
       handleSubmitBooking(c, l, s, v)
  \/ \E c \in Callers, l \in Callers, s \in Slots, a \in Amounts, v \in BOOLEAN :
       create_booking_with_payment(c, l, s, a, v)
  \/ Updates
  \/ \E b \in 1..MaxBookings : submitReview(b)
  \/ \E c \in Users, b \in 1..MaxBookings, r \in Users :
       InsertReview(c, b, r, ServiceProvider, 5)

Spec == Init /\ [][Next]_vars

(* ------------------------------------------------ one booking, any state *)
(* How a booking's credits stand: not moved, moved by
   create_booking_with_payment, or moved by a completing update. *)
Settlements == {"unpaid", "at_creation", "at_completion"}

(* The database holding one booking in any of the states the operations
   above can bring a single booking to (the states Spec reaches with one
   booking, at any depth): every combination of the columns except that
     - a row meeting the completion rule does not stay confirmed,
     - completed_at is set by a completing update only, which also leaves
       credits_transferred set,
     - learner_confirmed is never set when learner and provider are the same
       user (confirmPostSession then writes provider_confirmed),
     - only create_booking_with_payment stores an amount other than
       totalCredits.
   notifications, reviews and outcome count from this state on. *)
InitRows ==
  \E l \in Users, s \in Slots, st \in Statuses, pc \in BOOLEAN, lc \in BOOLEAN,
     d \in DisputeStatuses, pay \in Settlements, ca \in BOOLEAN, av \in BOOLEAN,
     amt \in {a \in Amounts : a > 0}, gl \in BOOLEAN :
    LET row == [NewRow(s, l, ServiceProvider, amt, pay # "unpaid")
                  EXCEPT !.status = st, !.provider_confirmed = pc,
                         !.learner_confirmed = lc, !.dispute_status = d,
                         !.completed_at = ca, !.google_meet_link = gl]
    IN  /\ ~(st = "confirmed" /\ pc /\ lc /\ d = "none")
        /\ pay = "unpaid" => ~ca
        /\ pay = "at_completion" => ca
        /\ l = ServiceProvider => ~lc
        /\ pay # "at_creation" => amt = totalCredits
        /\ booking_requests = <<row>>
        /\ transfers = <<IF pay = "unpaid" THEN 0 ELSE 1>>
        /\ flagSets = <<IF pay = "at_completion" THEN 1 ELSE 0>>
        /\ profiles = IF pay = "unpaid"
                      THEN [u \in Users |-> SignupCredits]
                      ELSE MoveCredits([u \in Users |-> SignupCredits], l,
                                       ServiceProvider, amt)
        /\ availability_slots = [x \in Slots |-> IF x = s THEN av ELSE TRUE]
        /\ steps = 0
        /\ inflight = {}
        /\ delivered = {}
        /\ notifications = EmptyBag
        /\ reviews = {}
        /\ profile_ratings = [u \in Users |-> [rating |-> 0, total_reviews |-> 0]]
        /\ outcome = "ok"
        /\ txns = <<>>
        /\ transactions = <<>>

(* Up to MaxRowSteps updates applied to the booking, whatever state it is in. *)
SpecRows == InitRows /\ [][steps < MaxRowSteps /\ Updates]_vars

(* Any one call that creates a booking: any caller, any learner (with or
   without a profile), any slot, a valid or an invalid time range, and for
   the RPC a non-positive amount or the service's price. *)
Creations ==
  \/ \E c \in Callers, l \in Callers, s \in Slots, v \in BOOLEAN :
       handleSubmitBooking(c, l, s, v)
  \/ \E c \in Callers, l \in Callers, s \in Slots, a \in {0, totalCredits}, v \in BOOLEAN :
       create_booking_with_payment(c, l, s, a, v)

(* Creation calls, with the provider confirming bookings in between. *)
NextCreations ==
  \/ Creations
  \/ \E b \in 1..MaxBookings : handleBookingAction(b, "confirm", "link")

SpecCreations == Init /\ [][NextCreations]_vars

(* Any update of a booking, a review of it, or the creation of a further
   booking by a learner for themselves. *)
NextNotify ==
  \/ Updates
  \/ \E b \in 1..MaxBookings : submitReview(b)
  \/ \E l \in Users, s \in Slots, v \in BOOLEAN : handleSubmitBooking(l, l, s, v)
  \/ \E l \in Users, s \in Slots, v \in BOOLEAN :
       create_booking_with_payment(l, l, s, totalCredits, v)

(* One operation applied to the database holding one booking in any of its
   reachable states. *)
SpecNotify == InitRows /\ [][steps = 0 /\ NextNotify]_vars

(* ------------------------------------- confirm-session requests in flight *)
(* The client holds the row it was shown (seen) and sends only the column it
   sets; the request is executed later, after any other request. *)
Request(u, b, patch) ==
  [user |-> u, booking |-> b, patch |-> patch, seen |-> booking_requests[b]]

Issued(u, b) == \E r \in inflight \cup delivered : r.user = u /\ r.booking = b

(* What checkNeedsPostSessionConfirmation requires of a row before the prompt
   is shown to user u (the end of the session is taken as passed). *)
NeedsConfirmation(u, r) ==
  /\ r.provider_id = u \/ r.learner_id = u
  /\ r.status = "confirmed"
  /\ ~(IF r.provider_id = u THEN r.provider_confirmed ELSE r.learner_confirmed)
  /\ ~(r.dispute_status # "none")

(* BookingCard shows "I Confirm This Session" when canConfirm and the
   provider has not confirmed; confirmSession then sends the update. *)
SendConfirmSession(b) ==
  /\ b \in Ids
  /\ booking_requests[b].status = "confirmed"
  /\ ~booking_requests[b].provider_confirmed
  /\ ~Issued(booking_requests[b].provider_id, b)
  /\ inflight' = inflight \cup
       {Request(booking_requests[b].provider_id, b, [provider_confirmed |-> TRUE])}
  /\ UNCHANGED <<dbvars, delivered, txns, transactions>>

(* SessionWatcher: the prompt is shown, the user presses confirm,
   confirmPostSession sends the update. *)
SendConfirmPostSession(u, b) ==
  /\ b \in Ids
  /\ NeedsConfirmation(u, booking_requests[b])
  /\ ~Issued(u, b)
  /\ inflight' = inflight \cup
       {Request(u, b, IF booking_requests[b].provider_id = u
                      THEN [provider_confirmed |-> TRUE]
                      ELSE [learner_confirmed |-> TRUE])}
  /\ UNCHANGED <<dbvars, delivered, txns, transactions>>

(* An UPDATE that writes back the row as the client was shown it. *)
LockedRow_stale(req) == req.seen

(* The row version an UPDATE works on: the latest committed one, read under
   the row lock, not the one the client was shown. *)
LockedRow(req) == booking_requests[req.booking]

(* The database executes one request. *)
ExecuteUpdate(req) ==
  /\ req \in inflight
  /\ UpdateRow(req.booking, LockedRow(req), req.patch)
  /\ inflight' = inflight \ {req}
  /\ delivered' = delivered \cup {req}
  /\ UNCHANGED <<reviews, profile_ratings, txns, transactions>>

NextRace ==
  \/ \E l \in Users, s \in Slots : handleSubmitBooking(l, l, s, TRUE)
  \/ \E l \in Users, s \in Slots : create_booking_with_payment(l, l, s, totalCredits, TRUE)
  \/ \E b \in 1..MaxBookings : handleBookingAction(b, "confirm", "link")
  \/ \E b \in 1..MaxBookings : SendConfirmSession(b)
  \/ \E u \in Users, b \in 1..MaxBookings : SendConfirmPostSession(u, b)
  \/ \E req \in inflight : ExecuteUpdate(req)

SpecRace == Init /\ [][NextRace]_vars

(* transactions.status: CHECK (status IN (...)). *)
TransactionStatuses == {"pending", "in_progress", "completed", "cancelled"}

TypeOK ==
  /\ profiles \in [Users -> Int]
  /\ availability_slots \in [Slots -> BOOLEAN]
  /\ Len(booking_requests) <= MaxBookings
  /\ Len(transfers) = Len(booking_requests)
  /\ Len(flagSets) = Len(booking_requests)
  /\ steps \in 0..MaxSteps
  /\ \A r \in inflight \cup delivered : r.user \in Users /\ r.booking \in Ids
  /\ IsABag(notifications)
  /\ \A r \in reviews : r.booking_id \in Ids \cup {NoBooking} /\ r.reviewer_id \in Users
  /\ \A u \in Users : profile_ratings[u].rating \in 0..50
  /\ Len(txns) <= MaxTxns
  /\ Len(transactions) <= MaxBookings
  /\ \A t \in 1..Len(transactions) : transactions[t].status \in TransactionStatuses

(* ------------------------------------------ status transitions in flight *)
Sent(u, b, patch) ==
  \E r \in inflight \cup delivered : r.user = u /\ r.booking = b /\ r.patch = patch

(* The booking dialog of BookingManagement shows Decline / Confirm while the
   row it was given has status pending; handleBookingAction then sends the
   update. *)
SendBookingAction(b, action) ==
  /\ b \in Ids
  /\ booking_requests[b].status = "pending"
  /\ LET u == booking_requests[b].provider_id
         patch == updateData(action, "link")
     IN  /\ ~Sent(u, b, patch)
         /\ inflight' = inflight \cup {Request(u, b, patch)}
  /\ UNCHANGED <<dbvars, delivered, txns, transactions>>

(* A party writes status = cancelled (admitted by the row policy) on a
   booking shown as pending or confirmed. *)
SendCancel(u, b) ==
  /\ b \in Ids
  /\ booking_requests[b].provider_id = u \/ booking_requests[b].learner_id = u
  /\ booking_requests[b].status \in {"pending", "confirmed"}
  /\ ~Sent(u, b, [status |-> "cancelled"])
  /\ inflight' = inflight \cup {Request(u, b, [status |-> "cancelled"])}
  /\ UNCHANGED <<dbvars, delivered, txns, transactions>>

NextTransitions ==
  \/ \E l \in Users, s \in Slots : handleSubmitBooking(l, l, s, TRUE)
  \/ \E l \in Users, s \in Slots : create_booking_with_payment(l, l, s, totalCredits, TRUE)
  \/ \E b \in 1..MaxBookings, a \in {"confirm", "decline"} : SendBookingAction(b, a)
  \/ \E u \in Users, b \in 1..MaxBookings : SendCancel(u, b)
  \/ \E req \in inflight : ExecuteUpdate(req)

SpecTransitions == Init /\ [][NextTransitions]_vars

(* ------------------------------------- transfer_credits, statement by statement *)
(* A transaction holds the row lock of a profile from its SELECT ... FOR
   UPDATE until it commits or aborts. *)
Open(t) == txns[t].pc \in {"begin", "locked_sender"}

Holds(t, u) ==
  \/ txns[t].pc = "locked_sender" /\ txns[t].sender = u

LockedByOther(t, u) == \E o \in 1..Len(txns) : o # t /\ Holds(o, u)

(* The profile whose lock transaction t is about to take. *)
Wants(t) == IF txns[t].pc = "begin" THEN txns[t].sender ELSE txns[t].recipient

Waits(t, o) == Open(t) /\ o # t /\ Holds(o, Wants(t))

(* A call of transfer_credits(sender_id, recipient_id, service_id) starts. *)
BeginTransfer(sender, recipient) ==
  /\ Len(txns) < MaxTxns
  /\ txns' = Append(txns, [sender |-> sender, recipient |-> recipient, pc |-> "begin"])
  /\ UNCHANGED <<dbvars, inflight, delivered, transactions>>

(* SELECT * INTO sender_profile FROM profiles WHERE user_id = sender_id FOR UPDATE *)
LockSender(t) ==
  /\ t \in 1..Len(txns)
  /\ txns[t].pc = "begin"
  /\ ~LockedByOther(t, txns[t].sender)
  /\ txns' = [txns EXCEPT ![t].pc = "locked_sender"]
  /\ UNCHANGED <<dbvars, inflight, delivered, transactions>>

(* SELECT ... recipient ... FOR UPDATE, then the balance check, the two
   UPDATEs and the commit, or the exception and the rollback. *)
LockRecipientAndTransfer(t) ==
  /\ t \in 1..Len(txns)
  /\ txns[t].pc = "locked_sender"
  /\ ~LockedByOther(t, txns[t].recipient)
  /\ IF profiles[txns[t].sender] < totalCredits
     THEN /\ txns' = [txns EXCEPT ![t].pc = "Insufficient credits"]
          /\ UNCHANGED profiles
     ELSE /\ txns' = [txns EXCEPT ![t].pc = "committed"]
          /\ profiles' = MoveCredits(profiles, txns[t].sender, txns[t].recipient, totalCredits)
  /\ UNCHANGED <<availability_slots, booking_requests, transfers, flagSets, steps,
                 notifications, reviews, profile_ratings, outcome, inflight, delivered, transactions>>

(* PostgreSQL's deadlock detector: a transaction in a cycle of lock waits is
   aborted with 'deadlock detected' and releases its locks. *)
DeadlockDetected(t) ==
  /\ t \in 1..Len(txns)
  /\ \E o \in 1..Len(txns) : Waits(t, o) /\ Waits(o, t)
  /\ txns' = [txns EXCEPT ![t].pc = "deadlock detected"]
  /\ UNCHANGED <<dbvars, inflight, delivered, transactions>>

NextLocks ==
  \/ \E a \in Users, b \in Users : BeginTransfer(a, b)
  \/ \E t \in 1..MaxTxns : LockSender(t)
  \/ \E t \in 1..MaxTxns : LockRecipientAndTransfer(t)
  \/ \E t \in 1..MaxTxns : DeadlockDetected(t)

SpecLocks == Init /\ [][NextLocks]_vars

(* ------------------------------------------ the legacy transactions table *)
(* ServiceDetail.handleBookService: read the balance, stop if it is below
   totalCredits, then insert the transaction with the column defaults.
   debits and credits are not columns: they count the times the trigger has
   taken credits_amount from the receiver and given it to the provider. *)
handleBookService(user) ==
  /\ steps < MaxSteps
  /\ Len(transactions) < MaxBookings
  /\ profiles[user] >= totalCredits
  /\ transactions' = Append(transactions,
        [ provider_id        |-> ServiceProvider,
          receiver_id        |-> user,
          credits_amount     |-> totalCredits,
          status             |-> "pending",
          provider_confirmed |-> FALSE,
          receiver_confirmed |-> FALSE,
          completion_date    |-> FALSE,
          notes              |-> "null",
          debits             |-> 0,
          credits            |-> 0 ])
  /\ steps' = steps + 1
  /\ outcome' = "ok"
  /\ UNCHANGED <<profiles, availability_slots, booking_requests, transfers, flagSets,
                 notifications, reviews, profile_ratings, inflight, delivered, txns>>

(* Policy "Users can update their own profile": FOR UPDATE USING
   (auth.uid() = user_id). *)
profiles_update_own(caller, user_id) == caller = user_id

(* Policy "Users can update transactions they're involved in": FOR UPDATE
   USING (auth.uid() = provider_id OR auth.uid() = receiver_id). *)
transactions_update_involved(caller, row) ==
  caller = row.provider_id \/ caller = row.receiver_id

(* The IF of process_transaction_completion: it reads NEW only. *)
TransactionCompletes(new) ==
  /\ new.provider_confirmed = TRUE
  /\ new.receiver_confirmed = TRUE
  /\ new.status = "completed"

(* Trigger function process_transaction_completion, BEFORE UPDATE on
   transactions.  It is not SECURITY DEFINER, so each of its two updates of
   profiles reaches only the rows the caller's update policy shows: the debit
   applies when the caller is the receiver, the credit when the caller is the
   provider. *)
process_transaction_completion(caller, p, new) ==
  IF TransactionCompletes(new)
  THEN LET debit  == profiles_update_own(caller, new.receiver_id)
           p1     == IF debit THEN [p EXCEPT ![new.receiver_id] = @ - new.credits_amount]
                     ELSE p
           credit == profiles_update_own(caller, new.provider_id)
           p2     == IF credit THEN [p1 EXCEPT ![new.provider_id] = @ + new.credits_amount]
                     ELSE p1
       IN  [row |-> [new EXCEPT !.completion_date = TRUE,
                                !.debits  = @ + (IF debit THEN 1 ELSE 0),
                                !.credits = @ + (IF credit THEN 1 ELSE 0)],
            profiles |-> p2]
  ELSE [row |-> new, profiles |-> p]

(* The updates of a transaction a party sends: one column, or the status
   completed together with the party's own confirmation. *)
TransactionPatches ==
  {[status |-> st] : st \in TransactionStatuses}
  \cup {[provider_confirmed |-> TRUE], [receiver_confirmed |-> TRUE], [notes |-> "text"]}
  \cup {[status |-> "completed", provider_confirmed |-> TRUE],
        [status |-> "completed", receiver_confirmed |-> TRUE]}

(* UPDATE transactions SET <patch> WHERE id = t as caller, with its trigger;
   a caller the policy does not admit updates no row. *)
UpdateTransaction(caller, t, patch) ==
  /\ t \in 1..Len(transactions)
  /\ steps < MaxSteps
  /\ transactions_update_involved(caller, transactions[t])
  /\ LET c == process_transaction_completion(caller, profiles,
                                             ApplyPatch(transactions[t], patch))
     IN  /\ transactions' = [transactions EXCEPT ![t] = c.row]
         /\ profiles' = c.profiles
  /\ steps' = steps + 1
  /\ outcome' = "ok"
  /\ UNCHANGED <<availability_slots, booking_requests, transfers, flagSets,
                 notifications, reviews, profile_ratings, inflight, delivered, txns>>

NextLegacy ==
  \/ \E u \in Users : handleBookService(u)
  \/ \E c \in Users, t \in 1..MaxBookings, patch \in TransactionPatches :
       UpdateTransaction(c, t, patch)

SpecLegacy == Init /\ [][NextLegacy]_vars

(* ------------------------------------------------ submit-review in flight *)
(* The learner may have the review dialog open more than once (two tabs, two
   devices); call names the dialog. *)
ReviewCalls == {"first", "second"}

(* checkCompletedNeedingReview has returned booking b to its learner
   (status completed, review_submitted false, completed_at set), the learner
   presses submit in dialog call, and submitReview sends the insert. *)
SendSubmitReview(call, b) ==
  /\ b \in Ids
  /\ booking_requests[b].status = "completed"
  /\ booking_requests[b].completed_at
  /\ ~\E r \in reviews : r.booking_id = b
  /\ ~Sent(booking_requests[b].learner_id, b, [review |-> call])
  /\ ~Sent(booking_requests[b].learner_id, b, [review |-> call, result |-> "ok"])
  /\ inflight' = inflight \cup {Request(booking_requests[b].learner_id, b, [review |-> call])}
  /\ UNCHANGED <<dbvars, delivered, txns, transactions>>

(* The database executes one insert into reviews; the caller gets the result. *)
ExecuteInsertReview(req) ==
  /\ req \in inflight
  /\ InsertReviewRow(req.user, req.booking, req.user,
                     booking_requests[req.booking].provider_id, 5)
  /\ inflight' = inflight \ {req}
  /\ delivered' = delivered \cup
        {[req EXCEPT !.patch = [review |-> req.patch.review, result |-> outcome']]}
  /\ UNCHANGED <<txns, transactions>>

NextReviews ==
  \/ \E call \in ReviewCalls, b \in 1..MaxBookings : SendSubmitReview(call, b)
  \/ \E req \in inflight : ExecuteInsertReview(req)

(* Review submissions for one booking in any state. *)
SpecReviews == InitRows /\ [][NextReviews]_vars

(* ------------------------------------------------ the ratings aggregate *)
(* The ratings the review operations are tried with. *)
RatingsTried == {3, 4, 5}

(* The user who writes the reviews. *)
Reviewer == CHOOSE u \in Users : u # ServiceProvider

(* Reviews written by Reviewer outside any booking (booking_id null), and
   rewritten or removed by whoever the policies let. *)
NextRatings ==
  \/ \E e \in Users, rt \in RatingsTried : InsertReview(Reviewer, NoBooking, Reviewer, e, rt)
  \/ \E c \in Users, i \in 1..MaxSteps, e \in Users, rt \in RatingsTried :
       UpdateReview(c, i, e, rt)
  \/ \E c \in Users, i \in 1..MaxSteps : DeleteReview(c, i)

SpecRatings == Init /\ [][NextRatings]_vars

(* ================================================================ properties *)
(* Net credits booking b has moved into u's balance, from the transfers
   counted for it. *)
NetOf(u, b) ==
  LET r == booking_requests[b]
      amt == transfers[b] * r.credits_amount
  IN  (IF r.provider_id = u THEN amt ELSE 0) - (IF r.learner_id = u THEN amt ELSE 0)

RECURSIVE NetUpTo(_, _)
NetUpTo(u, n) == IF n = 0 THEN 0 ELSE NetUpTo(u, n - 1) + NetOf(u, n)

(* Every balance is the signup balance plus the transfers counted per booking. *)
LedgerMatches == \A u \in Users : profiles[u] = SignupCredits + NetUpTo(u, Len(booking_requests))

Completes(b) == booking_requests[b].status # "completed" /\ booking_requests'[b].status = "completed"

(* C1: over any sequence of operations on a booking, credits_amount is moved
   from the learner to the provider at most once and credits_transferred
   turns from false to true at most once; the balances hold exactly the
   transfers so counted. *)
C1_TransferAtMostOnce ==
  /\ \A b \in Ids : transfers[b] <= 1 /\ flagSets[b] <= 1
  /\ LedgerMatches

(* After an update, a booking paid at creation is completed by both
   confirmations and was not charged a second time. *)
C1_Witness ==
  \E b \in Ids :
    /\ steps > 0
    /\ booking_requests[b].status = "completed"
    /\ booking_requests[b].provider_confirmed /\ booking_requests[b].learner_confirmed
    /\ booking_requests[b].credits_transferred
    /\ flagSets[b] = 0
    /\ transfers[b] = 1

(* C2: every profile's time_credits is >= 0 in every reachable state. *)
C2_NonNegativeBalance == \A u \in Users : profiles[u] >= 0

(* C3: a booking whose status is completed has moved exactly credits_amount
   from its learner to its provider. *)
C3_CompletedMovedAmount ==
  \A b \in Ids :
    booking_requests[b].status = "completed"
      => transfers[b] * booking_requests[b].credits_amount = booking_requests[b].credits_amount

(* C4: a booking whose status is declined or cancelled has moved net 0
   credits between its learner and its provider. *)
C4_DeclinedMovedNothing ==
  \A b \in Ids :
    booking_requests[b].status \in {"declined", "cancelled"}
      => transfers[b] * booking_requests[b].credits_amount = 0

(* C5: at most one booking with status confirmed references a given slot. *)
C5_OneConfirmedPerSlot ==
  \A s \in Slots :
    Cardinality({b \in Ids : /\ booking_requests[b].status = "confirmed"
                             /\ booking_requests[b].availability_slot_id = s}) <= 1

(* C6: an existing booking becomes completed, or has credits moved for it,
   only in a step after which provider_confirmed and learner_confirmed are
   both true. *)
C6_CompletionNeedsBoth ==
  [][\A b \in Ids :
       (Completes(b) \/ transfers'[b] # transfers[b])
         => /\ booking_requests'[b].provider_confirmed
            /\ booking_requests'[b].learner_confirmed]_vars

(* C7: while a booking's dispute_status is open, no step sets its status to
   completed and no step moves credits for it. *)
C7_OpenDisputeBlocks ==
  [][\A b \in Ids :
       (booking_requests[b].dispute_status = "open" /\ booking_requests'[b].dispute_status = "open")
         => ~Completes(b) /\ transfers'[b] = transfers[b]]_vars

Ready(r) ==
  /\ r.status = "confirmed"
  /\ r.provider_confirmed
  /\ r.learner_confirmed
  /\ r.dispute_status = "none"

(* C8: no update leaves a booking confirmed, confirmed by both parties and
   undisputed; the update of a confirmation flag or of the dispute status
   that completes this conjunction on a confirmed booking sets
   status = completed and completed_at, and the booking's credits are
   transferred (once) when the step is over. *)
C8_CompletionRuleOnEveryUpdate ==
  /\ [](\A b \in Ids : ~Ready(booking_requests[b]))
  /\ [][\A b \in Ids :
          LET r == booking_requests[b]
              n == booking_requests'[b]
          IN  ( /\ r.status = "confirmed"
                /\ n.status \in {"confirmed", "completed"}
                /\ \/ r.provider_confirmed # n.provider_confirmed
                   \/ r.learner_confirmed # n.learner_confirmed
                   \/ r.dispute_status # n.dispute_status
                /\ n.provider_confirmed /\ n.learner_confirmed /\ n.dispute_status = "none" )
              => /\ n.status = "completed"
                 /\ n.completed_at
                 /\ n.credits_transferred
                 /\ transfers'[b] = 1]_vars

(* After an update, a booking that was not paid at creation is completed:
   both parties confirmed, no dispute, completed_at set, credits transferred
   by an update. *)
C8_Witness ==
  \E b \in Ids :
    /\ steps > 0
    /\ booking_requests[b].status = "completed"
    /\ booking_requests[b].completed_at
    /\ booking_requests[b].provider_confirmed /\ booking_requests[b].learner_confirmed
    /\ booking_requests[b].dispute_status = "none"
    /\ booking_requests[b].credits_transferred
    /\ flagSets[b] = 1

(* Both parties' confirm-session requests for booking b have been executed. *)
BothExecuted(b) ==
  /\ \E r \in delivered : r.booking = b /\ r.patch = [provider_confirmed |-> TRUE]
  /\ \E r \in delivered : r.booking = b /\ r.patch = [learner_confirmed |-> TRUE]

(* C9: once the provider's and the learner's confirm-session updates of a
   confirmed, undisputed booking have both been executed, in whichever
   order, the booking is completed and exactly one transfer of
   credits_amount has occurred for it. *)
C9_ConcurrentConfirmOnce ==
  \A b \in Ids :
    BothExecuted(b) => booking_requests[b].status = "completed" /\ transfers[b] = 1

(* Both requests were in flight together (neither party had seen the other's
   confirmation), the booking was unpaid, and both have been executed. *)
C9_Witness ==
  \E b \in Ids :
    /\ BothExecuted(b)
    /\ \A r \in delivered :
         r.booking = b => ~r.seen.provider_confirmed /\ ~r.seen.learner_confirmed
    /\ flagSets[b] = 1
    /\ booking_requests[b].status = "completed"

(* C10: once a booking's status is declined, cancelled or completed, no
   later operation changes it. *)
C10_TerminalStatuses ==
  [][\A b \in Ids :
       booking_requests[b].status \in Terminal
         => booking_requests'[b].status = booking_requests[b].status]_vars

(* The request executed by this step, if it was sent for a pending booking
   and finds the booking no longer pending. *)
LostRace(req) ==
  /\ req \in inflight
  /\ req \in delivered'
  /\ req.seen.status = "pending"
  /\ booking_requests[req.booking].status # "pending"

(* C11: of two transitions attempted concurrently on the same pending
   booking (confirm and decline, or confirm and cancel) only the one that
   finds OLD.status = pending changes the booking's status and has side
   effects; the other leaves the status, the slot and the notifications as
   the winner set them. *)
C11_TransitionsLinearized ==
  [][\A req \in inflight :
       LostRace(req)
         => /\ booking_requests'[req.booking].status = booking_requests[req.booking].status
            /\ availability_slots' = availability_slots
            /\ notifications' = notifications]_vars

(* C12: a decline of a booking that is already declined fails (the caller
   gets an error), does not write the slot and appends no notification. *)
C12_DeclineTwice ==
  [][\A b \in Ids :
       ( /\ booking_requests[b].status = "declined"
         /\ handleBookingAction(b, "decline", "no_link") \/ handleBookingDecision(b, "decline", "no_link") )
         => /\ outcome' # "ok"
            /\ availability_slots' = availability_slots
            /\ notifications' = notifications]_vars

(* C13: the slot of every booking whose status is confirmed has
   is_available = false. *)
C13_ConfirmedSlotUnavailable ==
  \A b \in Ids :
    booking_requests[b].status = "confirmed"
      => availability_slots[booking_requests[b].availability_slot_id] = FALSE

(* C14: a booking row is persisted only for a slot whose is_available is
   true, and creation never writes the slot. *)
C14_CreateNeedsAvailableSlot ==
  [][Len(booking_requests') > Len(booking_requests)
       => /\ availability_slots[booking_requests'[Len(booking_requests')].availability_slot_id]
          /\ availability_slots' = availability_slots]_vars

(* C15: a booking creation that fails, for whatever reason, persists no
   booking row, changes no balance, leaves the slots as they were and
   appends no notification. *)
C15_FailedCreationChangesNothing ==
  [][outcome' # "ok"
       => UNCHANGED <<booking_requests, profiles, availability_slots, notifications,
                      transfers, flagSets>>]_vars

(* A creation was rejected by valid_booking_time_range, after the function
   had written both balances. *)
C15_Witness == steps > 0 /\ outcome = "check_violation"

(* C16: every booking's credits_amount is credits_per_hour x duration_hours
   of its service. *)
C16_AmountIsServicePrice ==
  \A b \in Ids : booking_requests[b].credits_amount = totalCredits

(* C17: with one booking of a 2 x 3 = 6 credit service by a learner who had
   10 credits, created by either path and confirmed by the provider, once
   both parties' confirm-session updates are executed the learner has 4, the
   provider has 6 more than before, and the booking is completed. *)
C17_EndToEndSettlement ==
  \A b \in Ids :
    ( /\ Len(booking_requests) = 1
      /\ booking_requests[b].learner_id # booking_requests[b].provider_id
      /\ BothExecuted(b) )
      => /\ profiles[booking_requests[b].learner_id] = SignupCredits - totalCredits
         /\ profiles[booking_requests[b].provider_id] = SignupCredits + totalCredits
         /\ booking_requests[b].status = "completed"

(* The scenario has run for a booking paid by create_booking_with_payment:
   the completing update found credits_transferred already set. *)
C17_Witness ==
  \E b \in Ids :
    /\ Len(booking_requests) = 1
    /\ booking_requests[b].learner_id # booking_requests[b].provider_id
    /\ BothExecuted(b)
    /\ flagSets[b] = 0
    /\ booking_requests[b].credits_transferred
    /\ booking_requests[b].status = "completed"

(* C18: a confirmed booking whose credits were not yet transferred and whose
   learner has less than credits_amount is not completed and no credits are
   moved for it. *)
C18_CompletionAbortsWhenShort ==
  [][\A b \in Ids :
       ( /\ booking_requests[b].status = "confirmed"
         /\ ~booking_requests[b].credits_transferred
         /\ profiles[booking_requests[b].learner_id] < booking_requests[b].credits_amount )
         => /\ booking_requests'[b].status # "completed"
            /\ ~booking_requests'[b].credits_transferred
            /\ transfers'[b] = transfers[b]]_vars

(* C19: no two transfers wait for each other's profile lock, and no transfer
   is aborted as a deadlock victim. *)
C19_NoDeadlock ==
  \A t \in 1..Len(txns) :
    /\ txns[t].pc # "deadlock detected"
    /\ \A o \in 1..Len(txns) : ~(Waits(t, o) /\ Waits(o, t))

(* The result the database returned to dialog call for booking b, "none"
   while the call has not been executed. *)
ReviewResult(call, b) ==
  IF \E r \in delivered : r.booking = b /\ r.patch.review = call
  THEN (CHOOSE r \in delivered : r.booking = b /\ r.patch.review = call).patch.result
  ELSE "none"

(* C21: no booking_id has more than one review, and of two submit-review
   calls for the same completed booking that were in flight together exactly
   one succeeds and the other fails with the unique violation, whichever is
   executed first. *)
C21_OneReviewPerBooking ==
  \A b \in Ids :
    /\ Cardinality({r \in reviews : r.booking_id = b}) <= 1
    /\ (ReviewResult("first", b) # "none" /\ ReviewResult("second", b) # "none")
         => {ReviewResult("first", b), ReviewResult("second", b)} = {"ok", "unique_violation"}

(* Both calls were sent before either was executed, and the one sent for
   dialog "second" was executed first and won. *)
C21_Witness ==
  \E b \in Ids :
    /\ ReviewResult("second", b) = "ok"
    /\ ReviewResult("first", b) = "unique_violation"
    /\ Cardinality({r \in reviews : r.booking_id = b}) = 1

(* The notifications rows the claim attaches to the step that takes booking
   b from row o to row n. *)
ExpectedNotifications(b, o, n) ==
  IF o.status = "pending" /\ n.status = "confirmed" THEN
    SetToBag({ [user_id |-> n.learner_id, booking_request_id |-> b,
                type |-> "booking_confirmed", title |-> "Booking Confirmed!",
                scheduled_for |-> "null"] })
    (+) SetToBag({ [user_id |-> n.provider_id, booking_request_id |-> b,
                    type |-> "booking_confirmed", title |-> "Booking Confirmed",
                    scheduled_for |-> "null"] })
    (+) SetToBag({ [user_id |-> n.learner_id, booking_request_id |-> b,
                    type |-> "booking_reminder", title |-> "Session Starting Soon",
                    scheduled_for |-> "requested_start_time - 1 hour"] })
    (+) SetToBag({ [user_id |-> n.provider_id, booking_request_id |-> b,
                    type |-> "booking_reminder", title |-> "Session Starting Soon",
                    scheduled_for |-> "requested_start_time - 1 hour"] })
  ELSE IF o.status = "pending" /\ n.status = "declined" THEN
    SetToBag({ [user_id |-> n.learner_id, booking_request_id |-> b,
                type |-> "booking_declined", title |-> "Booking Declined",
                scheduled_for |-> "null"] })
  ELSE IF o.status \in {"pending", "confirmed"} /\ n.status = "cancelled" THEN
    SetToBag({ [user_id |-> n.learner_id, booking_request_id |-> b,
                type |-> "booking_cancelled", title |-> "Booking Cancelled",
                scheduled_for |-> "null"] })
    (+) SetToBag({ [user_id |-> n.provider_id, booking_request_id |-> b,
                    type |-> "booking_cancelled", title |-> "Booking Cancelled",
                    scheduled_for |-> "null"] })
  ELSE EmptyBag

(* C23: no step removes or rewrites a notification; a step that creates a
   booking appends exactly one booking_request row for its provider; a step
   that takes a booking pending -> confirmed appends exactly two
   booking_confirmed rows (learner, provider) and two booking_reminder rows
   scheduled one hour before the start; pending -> declined appends exactly
   one booking_declined row for the learner; pending or confirmed ->
   cancelled appends exactly one booking_cancelled row for each party; a
   step that changes no booking's status and creates none appends nothing. *)
C23_NotificationsByTransition ==
  [][ /\ notifications \sqsubseteq notifications'
      /\ Len(booking_requests') > Len(booking_requests) =>
            notifications' = notifications (+)
              SetToBag({ [user_id |-> booking_requests'[Len(booking_requests')].provider_id,
                          booking_request_id |-> Len(booking_requests'),
                          type |-> "booking_request", title |-> "New Booking Request",
                          scheduled_for |-> "null"] })
      /\ \A b \in Ids :
            LET o == booking_requests[b]
                n == booking_requests'[b]
            IN  ( \/ o.status = "pending" /\ n.status \in {"confirmed", "declined"}
                  \/ o.status \in {"pending", "confirmed"} /\ n.status = "cancelled" )
                => notifications' = notifications (+) ExpectedNotifications(b, o, n)
      /\ ( /\ Len(booking_requests') = Len(booking_requests)
           /\ \A b \in Ids : booking_requests'[b].status = booking_requests[b].status )
         => notifications' = notifications ]_vars

(* A step in which either confirm handler runs for booking b after its
   meeting function returned an error or a response without a link. *)
ConfirmsWithoutLink(b) ==
  \E m \in {"error", "no_link"} :
    handleBookingAction(b, "confirm", m) \/ handleBookingDecision(b, "confirm", m)

(* C24: when create_meeting or create_random_meet returns an error or no
   link, the confirmation of a pending booking still happens, from either
   entry point: the call succeeds, the booking becomes confirmed (completed
   at once if both parties had already confirmed the session), its slot is
   unavailable, the two booking_confirmed and two booking_reminder rows are
   appended, and a null google_meet_link stays null. *)
C24_ConfirmWithoutLink ==
  [][\A b \in Ids :
       (booking_requests[b].status = "pending" /\ ConfirmsWithoutLink(b))
       => LET o == booking_requests[b]
              n == booking_requests'[b]
          IN  /\ outcome' = "ok"
              /\ n.status = IF CompletionRule([o EXCEPT !.status = "confirmed"], o)
                            THEN "completed" ELSE "confirmed"
              /\ availability_slots'[n.availability_slot_id] = FALSE
              /\ (notifications (+)
                    ExpectedNotifications(b, o, [o EXCEPT !.status = "confirmed"]))
                   \sqsubseteq notifications'
              /\ ~o.google_meet_link => ~n.google_meet_link]_vars

(* One update has confirmed a pending booking that had no meeting link: the
   slot is taken, the four rows are appended and the link is still null (a
   confirm whose meeting function returned a link would have stored it). *)
C24_Witness ==
  /\ steps = 1
  /\ outcome = "ok"
  /\ booking_requests[1].status = "confirmed"
  /\ ~booking_requests[1].google_meet_link
  /\ ~availability_slots[booking_requests[1].availability_slot_id]
  /\ notifications = ExpectedNotifications(1, [status |-> "pending"], booking_requests[1])
  /\ BagCardinality(notifications) = 4

(* C25: a booking's provider_confirmed or learner_confirmed becomes true, its
   dispute is opened, or it becomes completed, only in a step that finds the
   booking in status confirmed (never while it is pending, and so never
   before the session it was confirmed for). *)
C25_ConfirmSessionOnlyWhenConfirmed ==
  [][\A b \in Ids :
       LET o == booking_requests[b]
           n == booking_requests'[b]
       IN  ( \/ ~o.provider_confirmed /\ n.provider_confirmed
             \/ ~o.learner_confirmed /\ n.learner_confirmed
             \/ o.dispute_status # "open" /\ n.dispute_status = "open"
             \/ Completes(b) )
           => o.status = "confirmed"]_vars

(* C26: every booking whose status is completed has a null
   google_meet_link, whichever path took it there. *)
C26_CompletedHasNoLink ==
  \A b \in Ids :
    booking_requests[b].status = "completed" => ~booking_requests[b].google_meet_link

(* Credits learner u still owes for the first n bookings: the
   credits_amount of u's pending and confirmed bookings whose credits have
   not been transferred. *)
RECURSIVE OwedUpTo(_, _)
OwedUpTo(u, n) ==
  IF n = 0 THEN 0
  ELSE LET r == booking_requests[n]
       IN  OwedUpTo(u, n - 1) +
           (IF /\ r.learner_id = u
               /\ r.status \in {"pending", "confirmed"}
               /\ ~r.credits_transferred
            THEN r.credits_amount ELSE 0)

(* C27: every learner's balance covers the credits_amount of all of that
   learner's pending and confirmed bookings whose credits have not been
   transferred yet. *)
C27_BalanceCoversOpenBookings ==
  \A u \in Users : profiles[u] >= OwedUpTo(u, Len(booking_requests))

(* The sum of time_credits over the first n profiles of p. *)
RECURSIVE CreditsUpTo(_, _)
CreditsUpTo(p, n) == IF n = 0 THEN 0 ELSE p[n] + CreditsUpTo(p, n - 1)

(* C28: no booking operation (creation by either entry point, confirm,
   decline, cancel, confirm-session, dispute, completion, review) changes
   the sum of time_credits over all profiles, also when learner and
   provider are the same user. *)
C28_CreditsConserved ==
  [][CreditsUpTo(profiles', NumUsers) = CreditsUpTo(profiles, NumUsers)]_vars

(* create_booking_with_payment has just stored a paid booking of a user with
   themselves (debit and credit on the same profile), and the total is what
   the signups granted. *)
C28_Witness ==
  /\ steps = 1
  /\ Len(booking_requests) = 2
  /\ booking_requests[2].learner_id = booking_requests[2].provider_id
  /\ booking_requests[2].credits_transferred
  /\ transfers[2] = 1
  /\ CreditsUpTo(profiles, NumUsers) = NumUsers * SignupCredits

(* C29: every booking whose status is completed has credits_transferred
   true, whatever update completed it. *)
C29_CompletedIsTransferred ==
  \A b \in Ids :
    booking_requests[b].status = "completed" => booking_requests[b].credits_transferred

(* C30: over any sequence of updates of a transaction, credits_amount is
   moved from the receiver to the provider at most once; once the
   transaction is completed with both confirmations, a further update (of
   notes, say) moves no more credits. *)
C30_TransactionPaidOnce ==
  \A t \in 1..Len(transactions) :
    transactions[t].debits <= 1 /\ transactions[t].credits <= 1

(* The reviews of profile u. *)
ReviewsOf(u) == {r \in reviews : r.reviewee_id = u}

(* C22 as stated: every profile's total_reviews is the number of reviews
   naming it as reviewee and its rating is the mean of their ratings (0 when
   there are none). *)
C22_RatingIsMean ==
  \A u \in Users :
    /\ profile_ratings[u].total_reviews = Cardinality(ReviewsOf(u))
    /\ profile_ratings[u].rating * Cardinality(ReviewsOf(u)) = 10 * SumOfRatings(ReviewsOf(u))

(* C22 as amended: after any sequence of review inserts, updates (also of
   reviewee_id) and deletes, every profile's total_reviews is the number of
   reviews naming it as reviewee and its rating is the mean of their ratings
   rounded to one decimal place (0 when there are none); for reviews
   {5, 4, 3} the rating is exactly 4.0 and total_reviews is 3. *)
C22_RatingIsRoundedMean ==
  \A u \in Users :
    LET n   == Cardinality(ReviewsOf(u))
        sum == SumOfRatings(ReviewsOf(u))
        r   == profile_ratings[u].rating
    IN  /\ profile_ratings[u].total_reviews = n
        /\ n = 0 => r = 0
        /\ n > 0 => /\ 2 * (r * n - 10 * sum) <= n
                    /\ 2 * (10 * sum - r * n) <= n
        /\ ({x.rating : x \in ReviewsOf(u)} = {5, 4, 3} /\ n = 3) => r = 40

(* After four review operations a profile holds exactly three reviews, rated
   5, 4 and 3, and its rating is 4.0 with total_reviews 3. *)
C22_Witness ==
  \E u \in Users :
    /\ {x.rating : x \in ReviewsOf(u)} = {5, 4, 3}
    /\ Cardinality(ReviewsOf(u)) = 3
    /\ profile_ratings[u] = [rating |-> 40, total_reviews |-> 3]
    /\ steps > 3

(* C20: every review is stored by an insert made while its booking has
   status completed, with reviewer_id equal to the booking's learner_id. *)
C20_ReviewOnlyByLearnerOfCompleted ==
  [][\A r \in reviews' \ reviews :
       /\ booking_requests[r.booking_id].status = "completed"
       /\ r.reviewer_id = booking_requests[r.booking_id].learner_id]_vars

====
